---- MODULE Spec2Model ----
(***************************************************************************)
(* Model of src/src/validate-open-rpc-document.ts: the extension merger    *)
(* (applyExtensionsToMetaSchema), the sanitizer                            *)
(* (cleanMetaSchemaForValidation), the validator (validateOpenRPCDocument) *)
(* and the pipeline (parseOpenRPCDocument).                                *)
(*                                                                         *)
(* JavaScript objects are functions from key strings to values; `delete`   *)
(* restricts the domain.  Objects that the code aliases (the imported      *)
(* metaSchema and the working copy) live in a heap, a function from        *)
(* object names to values, so that a write through one reference is seen   *)
(* through every other reference to the same object.                       *)
(***************************************************************************)
EXTENDS Integers, Sequences, FiniteSets, TLC

VARIABLES
  metaSchema,    \* the module-level object imported at line 1, shared by every call
  pc,            \* per parseOpenRPCDocument call: where the async function is suspended
  schema,        \* per call: the `schema` parameter
  parsedSchema,  \* per call: the local `parsedSchema`
  isValid,       \* per call: the local `isValid`
  settled,       \* per call: what the returned promise settled with
  io,            \* per call: the collaborator invocations it made, in order
  arguments,     \* per call: the arguments the caller passed
  ajv,           \* per call: the invocations of its validation-engine instance
  op,            \* library specification: the exported function under call
  arg,           \* library specification: its argument
  call           \* library specification: the outcome of the call

vars ==
  <<metaSchema, pc, arguments, schema, parsedSchema, isValid, settled, io, ajv, op, arg, call>>
pipelineVars == <<pc, arguments, schema, parsedSchema, isValid, settled, io, ajv>>
libVars == <<op, arg, call>>

-----------------------------------------------------------------------------
(* Bounds *)

NCalls == 2          \* parseOpenRPCDocument calls that may be in flight together
MaxExtensions == 2   \* declarations in a document's x-extensions
MaxErrors == 2       \* violations the engine reports in one run

-----------------------------------------------------------------------------
(* JavaScript values *)

Has(o, k) == k \in DOMAIN o

\* F applied to the value of v, with v evaluated once
Let(v, F(_)) == CHOOSE x \in {F(y) : y \in {v}} : TRUE

\* delete o[k]
Delete(o, k) == Let(o, LAMBDA obj : [x \in DOMAIN obj \ {k} |-> obj[x]])

\* o[k] = v
Put(o, k, v) == (k :> v) @@ o

Undefined == [kind |-> "undefined"]

True == [kind |-> "true"]

NoError == [kind |-> "none"]

JsError(class, name, message) ==
  [kind |-> "error", class |-> class, name |-> name, message |-> message]

RECURSIVE SeqsUpTo(_, _)
SeqsUpTo(S, n) ==
  IF n = 0 THEN {<<>>}
  ELSE LET shorter == SeqsUpTo(S, n - 1)
       IN shorter \cup {Append(s, x) : s \in {t \in shorter : Len(t) = n - 1}, x \in S}

-----------------------------------------------------------------------------
(* The meta-schema package's content, cut down to the members the code     *)
(* touches: root $id/$schema, and definitions with and without             *)
(* `properties` and `required` members.                                    *)

BaseDefinitions ==
  ("methodObject" :>
      [type |-> "object",
       properties |-> ("name" :> "schema:methodObjectName") @@ ("params" :> "schema:params"),
       required |-> <<"name", "params">>])
  @@ ("contactObject" :>
      [type |-> "object",
       properties |-> ("name" :> "schema:contactName")])
  @@ ("methodObjectName" :> [type |-> "string"])
  @@ ("JSONSchema" :>
      (("$id" :> "https://meta.json-schema.tools/")
       @@ ("$schema" :> "https://json-schema.org/draft-07/schema#")
       @@ [type |-> "object", properties |-> ("title" :> "schema:title")]))

BaseMetaSchema ==
  ("$id" :> "https://meta.open-rpc.org/")
  @@ ("$schema" :> "https://meta.json-schema.tools/")
  @@ [title |-> "openrpcDocument", definitions |-> BaseDefinitions]

-----------------------------------------------------------------------------
(* Documents and their Extension Declarations *)

ExtensionNames == {"x-foo", "name"}

Fragments == {"schema:A", "schema:B"}

RestrictedLists ==
  { <<"methodObject">>, <<"contactObject">>, <<"methodObjectName">>, <<"NoSuchDef">>,
    <<"methodObject", "contactObject">>, <<"methodObject", "methodObject">> }

ExtensionDeclarations ==
  [name : ExtensionNames, schema : Fragments, restricted : RestrictedLists,
   required : BOOLEAN]

PlainDocument == [openrpc |-> "1.2.6"]

WithExtensions(exts) == PlainDocument @@ ("x-extensions" :> exts)

Documents ==
  {PlainDocument} \cup {WithExtensions(exts) : exts \in SeqsUpTo(ExtensionDeclarations, MaxExtensions)}

Ext(n, s, r, q) == [name |-> n, schema |-> s, restricted |-> r, required |-> q]

FooOnMethod == WithExtensions(<<Ext("x-foo", "schema:A", <<"methodObject">>, TRUE)>>)

FooOnContact == WithExtensions(<<Ext("x-foo", "schema:B", <<"contactObject">>, FALSE)>>)

FooOnNoSuchDef == WithExtensions(<<Ext("x-foo", "schema:A", <<"NoSuchDef">>, FALSE)>>)

RequiredOnContactThenNoSuchDef ==
  WithExtensions(<<Ext("x-foo", "schema:A", <<"contactObject">>, TRUE),
                   Ext("x-foo", "schema:A", <<"NoSuchDef">>, FALSE)>>)

\* the documents the pipeline and the standalone validator are run on
SampleDocuments ==
  {PlainDocument, FooOnMethod, FooOnContact, FooOnNoSuchDef, RequiredOnContactThenNoSuchDef}

-----------------------------------------------------------------------------
(* Errors *)

\* new Error(`Invalid meta schema key: ${metaSchemaKey} for openrpc extension ${propKey}`)
InvalidMetaSchemaKey(metaSchemaKey, propKey) ==
  JsError("Error", "Error",
          <<"Invalid meta schema key: ", metaSchemaKey, " for openrpc extension ", propKey>>)

\* what the runtime throws when `.push` is read from an undefined `required`
TypeErrorReadingPush ==
  JsError("TypeError", "TypeError", <<"Cannot read properties of undefined (reading 'push')">>)

\* what the runtime throws when a key is set on an undefined `properties`
TypeErrorSettingProperty ==
  JsError("TypeError", "TypeError", <<"Cannot set properties of undefined">>)

Violations ==
  { [schemaPath |-> "#/required", dataPath |-> "",
     message |-> "should have required property 'info'"],
    [schemaPath |-> "#/definitions/methodObject/required", dataPath |-> ".methods[0]",
     message |-> "should have required property 'x-foo'"] }

\* JSON.stringify(errors, undefined, "  "), as the sequence of its tokens
RECURSIVE JSONstringifyItems(_)
JSONstringifyItems(errors) ==
  IF errors = <<>> THEN <<>>
  ELSE <<"{", Head(errors).schemaPath, Head(errors).dataPath, Head(errors).message, "}">>
       \o JSONstringifyItems(Tail(errors))

JSONstringify(errors) == <<"[">> \o JSONstringifyItems(errors) \o <<"]">>

\* a constructor that serializes the first error only
ValidationErrorMessageFirstOnly(errors) ==
  <<"Error validating OpenRPC Document against @open-rpc/meta-schema.", "\n",
    "The errors found are as follows:", "\n">> \o JSONstringify(SubSeq(errors, 1, 1))

\* constructor body of OpenRPCDocumentValidationError: this.message, three parts
\* joined by "\n"
ValidationErrorMessage(errors) ==
  <<"Error validating OpenRPC Document against @open-rpc/meta-schema.", "\n",
    "The errors found are as follows:", "\n">> \o JSONstringify(errors)

\* class OpenRPCDocumentValidationError, with its `name` field initializer
OpenRPCDocumentValidationError(errors) ==
  JsError("OpenRPCDocumentValidationError", "OpenRPCDocumentDereferencingError",
          ValidationErrorMessage(errors))

\* a constructor that drops the underlying message
DereferencingErrorMessageWithoutCause(e) ==
  <<"The json schema provided cannot be dereferenced. Received Error: \n ">>

\* super(...) argument of OpenRPCDocumentDereferencingError's constructor
DereferencingErrorMessage(e) ==
  <<"The json schema provided cannot be dereferenced. Received Error: \n ">> \o e.message

\* class OpenRPCDocumentDereferencingError extends Error: `name` is inherited from Error
OpenRPCDocumentDereferencingError(e) ==
  JsError("OpenRPCDocumentDereferencingError", "Error", DereferencingErrorMessage(e))

-----------------------------------------------------------------------------
(* Extension Schema Merger *)

\* The working copy.  The function is imported from ./get-meta-schema-with-extension,
\* which is not among the sources; the specification (sections 3 and 9) has it build a
\* fresh deep copy of the base meta-schema.
getMetaSchemaWithExtensionSchema(heap) ==
  [heap |-> Put(heap, "extendedMetaSchema", heap["metaSchema"]),
   ref |-> "extendedMetaSchema"]

\* defs aliasing the imported module object instead of the working copy
DefsOfImportedMetaSchema(extendedMetaSchema) == "metaSchema"

\* const defs = extendedMetaSchema.definitions: the object whose definitions `defs` aliases
DefsOwner(extendedMetaSchema) == extendedMetaSchema

\* the two nested forEach loops, as the sequence of their inner iterations
RECURSIVE Iterations(_)
Iterations(extensions) ==
  IF extensions = <<>> THEN <<>>
  ELSE LET extension == Head(extensions)
       IN [j \in 1..Len(extension.restricted) |->
             [propKey |-> extension.name, schema |-> extension.schema,
              required |-> extension.required,
              metaSchemaKey |-> extension.restricted[j]]]
          \o Iterations(Tail(extensions))

\* push only when the name is not yet listed
PushRequiredOnce(required, propKey) ==
  IF \E i \in 1..Len(required) : required[i] = propKey THEN required
  ELSE Append(required, propKey)

\* defs[metaSchemaKey]?.required.push(propKey)
PushRequired(required, propKey) == Append(required, propKey)

\* keep an entry that is already there
SetPropertyIfAbsent(properties, propKey, fragment) ==
  IF Has(properties, propKey) THEN properties ELSE Put(properties, propKey, fragment)

\* defs[metaSchemaKey].properties[propKey] = schema
SetProperty(properties, propKey, fragment) == Put(properties, propKey, fragment)

\* one iteration of the inner forEach
InjectExtension(defs, it) ==
  IF ~Has(defs, it.metaSchemaKey)
  THEN [defs |-> defs, thrown |-> InvalidMetaSchemaKey(it.metaSchemaKey, it.propKey)]
  ELSE IF it.required = TRUE /\ ~Has(defs[it.metaSchemaKey], "required")
  THEN [defs |-> defs, thrown |-> TypeErrorReadingPush]
  ELSE Let(IF it.required = TRUE
           THEN Put(defs[it.metaSchemaKey], "required",
                    PushRequired(defs[it.metaSchemaKey].required, it.propKey))
           ELSE defs[it.metaSchemaKey],
           LAMBDA pushed :
             IF ~Has(pushed, "properties")
             THEN [defs |-> Put(defs, it.metaSchemaKey, pushed),
                   thrown |-> TypeErrorSettingProperty]
             ELSE [defs |-> Put(defs, it.metaSchemaKey,
                                Put(pushed, "properties",
                                    SetProperty(pushed.properties, it.propKey, it.schema))),
                   thrown |-> NoError])

\* the iterations in order, until one throws
RECURSIVE InjectAll(_, _)
InjectAll(defs, iterations) ==
  IF iterations = <<>> THEN [defs |-> defs, thrown |-> NoError]
  ELSE Let(InjectExtension(defs, Head(iterations)),
           LAMBDA r : IF r.thrown.kind # "none" THEN r
                      ELSE InjectAll(r.defs, Tail(iterations)))

\* Result: the heap after the call, the returned reference, and the error thrown (if any).
applyExtensionsToMetaSchema(heap, document) ==
  Let(getMetaSchemaWithExtensionSchema(heap), LAMBDA got :
    Let(DefsOwner(got.ref), LAMBDA owner :
      Let(IF Has(document, "x-extensions")
          THEN InjectAll(got.heap[owner].definitions, Iterations(document["x-extensions"]))
          ELSE [defs |-> got.heap[owner].definitions, thrown |-> NoError],
          LAMBDA r :
            [heap |-> Put(got.heap, owner, Put(got.heap[owner], "definitions", r.defs)),
             ret |-> got.ref,
             thrown |-> r.thrown])))

-----------------------------------------------------------------------------
(* Meta-Schema Sanitizer *)

\* a sanitizer that forgets the nested JSONSchema definition
CleanRootOnly(m) == Delete(Delete(m, "$schema"), "$id")

\* the four deletes, on the object passed in; the same object is returned
cleanMetaSchemaForValidation(m) ==
  Delete(Delete(Put(m, "definitions",
                    Put(m.definitions, "JSONSchema",
                        Delete(Delete(m.definitions.JSONSchema, "$id"), "$schema"))),
                "$schema"),
         "$id")

-----------------------------------------------------------------------------
(* Document Validator *)

AjvNull == [isNull |-> TRUE, list |-> <<>>]

\* what ajv.errors can be after ajv.validate: null, or a non-empty array
AjvErrors ==
  {AjvNull} \cup {[isNull |-> FALSE, list |-> l] : l \in SeqsUpTo(Violations, MaxErrors) \ {<<>>}}

\* if (ajv.errors) { return new OpenRPCDocumentValidationError(...) } else { return true }
ValidationOutcome(errors) ==
  IF errors.isNull THEN [ret |-> True, thrown |-> NoError]
  ELSE [ret |-> OpenRPCDocumentValidationError(errors.list), thrown |-> NoError]

\* the engine's outcomes in the pipeline, which does not look into the list
PipelineAjvErrors == {e \in AjvErrors : Len(e.list) <= 1}

\* errors: what the engine leaves in ajv.errors when it is run.
\* Result: the heap after the call, the value returned or the error thrown, and the
\* engine invocations made.
validateOpenRPCDocument(heap, document, errors) ==
  Let(applyExtensionsToMetaSchema(heap, document), LAMBDA a :
    IF a.thrown.kind # "none"
    THEN [heap |-> a.heap, ret |-> Undefined, thrown |-> a.thrown, ajv |-> <<>>]
    ELSE Let(a.heap[a.ret], LAMBDA metaSchemaCopy :
           Let(Delete(Delete(
                 Put(metaSchemaCopy, "definitions",
                     Put(metaSchemaCopy.definitions, "JSONSchema",
                         Delete(Delete(metaSchemaCopy.definitions.JSONSchema, "$id"),
                                "$schema"))),
                 "$schema"), "$id"),
               LAMBDA cleaned :
                 [heap |-> Put(a.heap, a.ret, cleaned),
                  ret |-> ValidationOutcome(errors).ret,
                  thrown |-> ValidationOutcome(errors).thrown,
                  ajv |-> <<[schema |-> cleaned, data |-> document, errors |-> errors]>>])))

-----------------------------------------------------------------------------
(* Document Acquirer: references and the collaborators' outcomes *)

Unparsable == [ok |-> FALSE, value |-> Undefined]

Parsed(document) == [ok |-> TRUE, value |-> document]

\* A string reference: its text, what JSON.parse makes of it, and what is-url answers.
StringRef(text, json, url) == [type |-> "string", text |-> text, json |-> json, url |-> url]

ObjectRef(document) == [type |-> "object", value |-> document]

NoRef == [type |-> "undefined"]

References ==
  {ObjectRef(d) : d \in SampleDocuments}
  \cup {StringRef("<json text>", Parsed(d), FALSE) : d \in {PlainDocument, FooOnMethod}}
  \cup {StringRef("<json text that is-url accepts>", Parsed(PlainDocument), TRUE),
        StringRef("https://example.com/openrpc.json", Unparsable, TRUE),
        StringRef("./api/openrpc.json", Unparsable, FALSE)}

\* schema: string | types.OpenRPC = "./openrpc.json"
DefaultSchema == StringRef("./openrpc.json", Unparsable, FALSE)

\* try { JSON.parse(jsonString); return true; } catch (e) { return false; }
isJson(jsonString) == jsonString.json.ok

isUrl(string) == string.url

\* the URL test placed before the JSON test
StrategyUrlFirst(ref) ==
  IF ref.type # "string" THEN "object"
  ELSE IF isUrl(ref) THEN "fetchUrlSchemaFile"
  ELSE IF isJson(ref) THEN "JSON.parse"
  ELSE "readSchemaFromFile"

\* the if / else if chain of parseOpenRPCDocument
Strategy(ref) ==
  IF ref.type # "string" THEN "object"
  ELSE IF isJson(ref) THEN "JSON.parse"
  ELSE IF isUrl(ref) THEN "fetchUrlSchemaFile"
  ELSE "readSchemaFromFile"

\* the documents the URL and file collaborators serve
RetrievedDocuments == {PlainDocument, FooOnNoSuchDef}

\* failures of the URL and file collaborators
FetchFailures == {JsError("FetchError", "FetchError", <<"request failed">>)}

ReadFailures ==
  {JsError("Error", "Error", <<"ENOENT: no such file or directory">>),
   JsError("SyntaxError", "SyntaxError", <<"Unexpected token in JSON">>)}

\* failures of the dereferencing engine
DereferenceFailures ==
  {JsError("ResolverError", "ResolverError", <<"Error resolving $ref pointer">>)}

-----------------------------------------------------------------------------
(* Pipeline Orchestrator: parseOpenRPCDocument, one action per run between  *)
(* two suspension points of the async function                              *)

Calls == 1..NCalls

Invocation(fn, a) == [fn |-> fn, arg |-> a, outcome |-> "pending", error |-> NoError]

\* the last collaborator invocation of call c settles
Settle(log, outcome, error) ==
  [log EXCEPT ![Len(log)] = [@ EXCEPT !.outcome = outcome, !.error = error]]

\* every value dereferenced, whatever validation returned
GateOpen(valid) == "dereference"

\* if (isValid === true) { ...dereference... } else { throw isValid }
Gate(valid) == IF valid.kind = "true" THEN "dereference" ELSE "throw"

Reject(c, error, log) ==
  /\ pc' = [pc EXCEPT ![c] = "rejected"]
  /\ settled' = [settled EXCEPT ![c] = error]
  /\ io' = [io EXCEPT ![c] = log]

\* from `const isValid = validateOpenRPCDocument(parsedSchema)` to the next suspension
ValidateThenDereference(c, document, errors, log) ==
  \E v \in {validateOpenRPCDocument([metaSchema |-> metaSchema], document, errors)} :
  /\ metaSchema' = v.heap["metaSchema"]
  /\ ajv' = [ajv EXCEPT ![c] = v.ajv]
  /\ parsedSchema' = [parsedSchema EXCEPT ![c] = document]
  /\ IF v.thrown.kind # "none"
     THEN /\ Reject(c, v.thrown, log)
          /\ UNCHANGED isValid
     ELSE /\ isValid' = [isValid EXCEPT ![c] = v.ret]
          /\ IF Gate(v.ret) = "dereference"
             THEN /\ pc' = [pc EXCEPT ![c] = "dereference"]
                  /\ io' = [io EXCEPT ![c] = Append(log, Invocation("dereference", "parsedSchema"))]
                  /\ UNCHANGED settled
             ELSE Reject(c, v.ret, log)

\* the call, up to its first suspension
Start(c, args, ref) ==
  /\ pc[c] = "idle"
  /\ arguments' = [arguments EXCEPT ![c] = args]
  /\ schema' = [schema EXCEPT ![c] = ref]
  /\ IF Strategy(ref) = "object"
     THEN \E errors \in PipelineAjvErrors : ValidateThenDereference(c, ref.value, errors, <<>>)
     ELSE IF Strategy(ref) = "JSON.parse"
     THEN \E errors \in PipelineAjvErrors : ValidateThenDereference(c, ref.json.value, errors, <<>>)
     ELSE /\ IF Strategy(ref) = "fetchUrlSchemaFile"
             THEN /\ pc' = [pc EXCEPT ![c] = "fetchUrlSchemaFile"]
                  /\ io' = [io EXCEPT ![c] = <<Invocation("fetchUrlSchemaFile", ref.text)>>]
             ELSE /\ pc' = [pc EXCEPT ![c] = "pathExists"]
                  /\ io' = [io EXCEPT ![c] = <<Invocation("pathExists", ref.text)>>]
          /\ UNCHANGED <<metaSchema, parsedSchema, isValid, settled, ajv>>
  /\ UNCHANGED libVars

\* parseOpenRPCDocument(schema)
Call(c) == \E ref \in References : Start(c, <<ref>>, ref)

\* parseOpenRPCDocument()
CallDefault(c) == Start(c, <<>>, DefaultSchema)

\* await fetchUrlSchemaFile(schema) settles
FetchSettles(c) ==
  /\ pc[c] = "fetchUrlSchemaFile"
  /\ \/ \E document \in RetrievedDocuments, errors \in PipelineAjvErrors :
          ValidateThenDereference(c, document, errors, Settle(io[c], "resolved", NoError))
     \/ \E e \in FetchFailures :
          /\ Reject(c, e, Settle(io[c], "rejected", e))
          /\ UNCHANGED <<metaSchema, parsedSchema, isValid, ajv>>
  /\ UNCHANGED <<arguments, schema, libVars>>

\* await pathExists(schema) settles (it never rejects); readSchemaFromFile is invoked
PathExistsSettles(c) ==
  /\ pc[c] = "pathExists"
  /\ pc' = [pc EXCEPT ![c] = "readSchemaFromFile"]
  /\ io' = [io EXCEPT ![c] = Append(Settle(io[c], "resolved", NoError),
                                    Invocation("readSchemaFromFile", schema[c].text))]
  /\ UNCHANGED <<metaSchema, arguments, schema, parsedSchema, isValid, settled, ajv, libVars>>

\* await readSchemaFromFile(schema) settles
ReadSettles(c) ==
  /\ pc[c] = "readSchemaFromFile"
  /\ \/ \E document \in RetrievedDocuments, errors \in PipelineAjvErrors :
          ValidateThenDereference(c, document, errors, Settle(io[c], "resolved", NoError))
     \/ \E e \in ReadFailures :
          /\ Reject(c, e, Settle(io[c], "rejected", e))
          /\ UNCHANGED <<metaSchema, parsedSchema, isValid, ajv>>
  /\ UNCHANGED <<arguments, schema, libVars>>

\* await refParser.dereference(parsedSchema) settles
DereferenceSettles(c) ==
  /\ pc[c] = "dereference"
  /\ \/ /\ pc' = [pc EXCEPT ![c] = "resolved"]
        /\ settled' = [settled EXCEPT ![c] = parsedSchema[c]]
        /\ io' = [io EXCEPT ![c] = Settle(io[c], "resolved", NoError)]
     \/ \E e \in DereferenceFailures :
          Reject(c, OpenRPCDocumentDereferencingError(e), Settle(io[c], "rejected", e))
  /\ UNCHANGED <<metaSchema, arguments, schema, parsedSchema, isValid, ajv, libVars>>

\* the caller has consumed the settled promise; the slot is free for the next call
Return(c) ==
  /\ pc[c] \in {"resolved", "rejected"}
  /\ pc' = [pc EXCEPT ![c] = "idle"]
  /\ arguments' = [arguments EXCEPT ![c] = <<>>]
  /\ schema' = [schema EXCEPT ![c] = NoRef]
  /\ parsedSchema' = [parsedSchema EXCEPT ![c] = Undefined]
  /\ isValid' = [isValid EXCEPT ![c] = Undefined]
  /\ settled' = [settled EXCEPT ![c] = Undefined]
  /\ io' = [io EXCEPT ![c] = <<>>]
  /\ ajv' = [ajv EXCEPT ![c] = <<>>]
  /\ UNCHANGED <<metaSchema, libVars>>

PipelineIdle ==
  /\ pc = [c \in Calls |-> "idle"]
  /\ arguments = [c \in Calls |-> <<>>]
  /\ schema = [c \in Calls |-> NoRef]
  /\ parsedSchema = [c \in Calls |-> Undefined]
  /\ isValid = [c \in Calls |-> Undefined]
  /\ settled = [c \in Calls |-> Undefined]
  /\ io = [c \in Calls |-> <<>>]
  /\ ajv = [c \in Calls |-> <<>>]

NoCall == [n |-> 0, ret |-> Undefined, prev |-> Undefined, thrown |-> NoError, ajv |-> <<>>]

Init ==
  /\ metaSchema = BaseMetaSchema
  /\ PipelineIdle
  /\ op = "none"
  /\ arg = Undefined
  /\ call = NoCall

Next ==
  \E c \in Calls :
    \/ Call(c)
    \/ CallDefault(c)
    \/ FetchSettles(c)
    \/ PathExistsSettles(c)
    \/ ReadSettles(c)
    \/ DereferenceSettles(c)
    \/ Return(c)

Spec == Init /\ [][Next]_vars

-----------------------------------------------------------------------------
(* The exported functions called on their own: one call per behaviour, its  *)
(* argument drawn at Init                                                   *)

\* meta-schemas that have a definitions.JSONSchema entry: identity keys present or
\* absent at the root, in JSONSchema and in another definition
IdentityKeys == {"$id", "$schema"}

Restrict(o, absent) == [x \in DOMAIN o \ absent |-> o[x]]

MetaSchemas ==
  { Restrict(
      Put(BaseMetaSchema, "definitions",
          Put(Put(BaseDefinitions, "JSONSchema",
                  Restrict(BaseDefinitions["JSONSchema"], inJs)),
              "contactObject",
              Restrict(("$id" :> "#contact") @@ ("$schema" :> "draft-07")
                       @@ BaseDefinitions["contactObject"], inOther))),
      atRoot)
    : atRoot \in SUBSET IdentityKeys, inJs \in SUBSET IdentityKeys,
      inOther \in SUBSET IdentityKeys }

InitLib ==
  /\ metaSchema = BaseMetaSchema
  /\ PipelineIdle
  /\ call = NoCall
  /\ \/ op = "applyExtensionsToMetaSchema" /\ arg \in Documents
     \/ op = "validateOpenRPCDocument" /\ arg \in SampleDocuments
     \/ op = "cleanMetaSchemaForValidation" /\ arg \in MetaSchemas

ApplyExtensions ==
  /\ op = "applyExtensionsToMetaSchema"
  /\ call.n = 0
  /\ \E r \in {applyExtensionsToMetaSchema([metaSchema |-> metaSchema], arg)} :
     /\ metaSchema' = r.heap["metaSchema"]
     /\ call' = [n |-> 1,
                 ret |-> IF r.thrown.kind = "none" THEN r.heap[r.ret] ELSE Undefined,
                 prev |-> Undefined, thrown |-> r.thrown, ajv |-> <<>>]
  /\ UNCHANGED <<pipelineVars, op, arg>>

Validate ==
  /\ op = "validateOpenRPCDocument"
  /\ call.n = 0
  /\ \E errors \in AjvErrors :
     \E v \in {validateOpenRPCDocument([metaSchema |-> metaSchema], arg, errors)} :
       /\ metaSchema' = v.heap["metaSchema"]
       /\ call' = [n |-> 1, ret |-> v.ret, prev |-> Undefined, thrown |-> v.thrown,
                   ajv |-> v.ajv]
  /\ UNCHANGED <<pipelineVars, op, arg>>

\* the sanitizer, applied to the argument and then to its own result
Clean ==
  /\ op = "cleanMetaSchemaForValidation"
  /\ call.n < 2
  /\ call' = [n |-> call.n + 1,
              ret |-> cleanMetaSchemaForValidation(IF call.n = 0 THEN arg ELSE call.ret),
              prev |-> call.ret, thrown |-> NoError, ajv |-> <<>>]
  /\ UNCHANGED <<metaSchema, pipelineVars, op, arg>>

NextLib == ApplyExtensions \/ Validate \/ Clean

SpecLib == InitLib /\ [][NextLib]_vars

-----------------------------------------------------------------------------
(* Vocabulary of the properties *)

\* the x-extensions of a document, empty when it has none
Declarations(document) ==
  IF Has(document, "x-extensions") THEN document["x-extensions"] ELSE <<>>

\* the declarations of decls that target definition D with property name N
Targeting(decls, D, N) ==
  {i \in 1..Len(decls) :
     /\ decls[i].name = N
     /\ \E j \in 1..Len(decls[i].restricted) : decls[i].restricted[j] = D}

\* the (declaration, restricted-entry) pairs with required = true that target (D, N)
RequiredPairs(decls, D, N) ==
  {p \in (1..Len(decls)) \X (1..3) :
     /\ p[2] <= Len(decls[p[1]].restricted)
     /\ decls[p[1]].required = TRUE
     /\ decls[p[1]].name = N
     /\ decls[p[1]].restricted[p[2]] = D}

Before(p, q) == p[1] < q[1] \/ (p[1] = q[1] /\ p[2] < q[2])

\* the names that the required pairs targeting D append, in x-extensions order
AppendedTo(decls, D) ==
  LET pairs == UNION {RequiredPairs(decls, D, N) : N \in ExtensionNames}
  IN [k \in 1..Cardinality(pairs) |->
        decls[(CHOOSE p \in pairs : Cardinality({q \in pairs : Before(q, p)}) = k - 1)[1]].name]

Count(seq, x) == Cardinality({i \in 1..Len(seq) : seq[i] = x})

Max(S) == CHOOSE i \in S : \A j \in S : j <= i

PropertiesOf(def) == IF Has(def, "properties") THEN def.properties ELSE <<>>

RequiredOf(def) == IF Has(def, "required") THEN def.required ELSE <<>>

\* s occurs in t as a run of consecutive elements
Contains(t, s) ==
  \E k \in 0..(Len(t) - Len(s)) : SubSeq(t, k + 1, k + Len(s)) = s

Invoked(c, fn) == \E i \in 1..Len(io[c]) : io[c][i].fn = fn

Failed(c, fn) ==
  \E i \in 1..Len(io[c]) : io[c][i].fn = fn /\ io[c][i].outcome = "rejected"

IsDocument(v) == Has(v, "openrpc")

ApplySucceeded ==
  op = "applyExtensionsToMetaSchema" /\ call.n = 1 /\ call.thrown.kind = "none"

-----------------------------------------------------------------------------
(* Properties of the pipeline (specification Spec) *)

\* C1: whenever validateOpenRPCDocument returned anything other than true to a
\* parseOpenRPCDocument call, the call is rejected with that very value and it never
\* invoked the dereferencing capability.
C1_ValidationGate ==
  \A c \in Calls :
    isValid[c].kind \notin {"undefined", "true"}
      => /\ pc[c] = "rejected"
         /\ settled[c] = isValid[c]
         /\ settled[c].class = "OpenRPCDocumentValidationError"
         /\ ~Invoked(c, "dereference")

C1_Witness ==
  \E c \in Calls :
    /\ pc[c] = "rejected"
    /\ isValid[c].kind = "error"
    /\ Len(ajv[c]) = 1
    /\ ~ajv[c][1].errors.isNull

\* what the schema handed to the engine holds beyond the base meta-schema is declared
\* by the document
OnlyOwnInjections(augmented, document) ==
  /\ DOMAIN augmented.definitions = DOMAIN BaseDefinitions
  /\ \A D \in DOMAIN BaseDefinitions :
       /\ \A N \in DOMAIN PropertiesOf(augmented.definitions[D]) :
            (\/ N \notin DOMAIN PropertiesOf(BaseDefinitions[D])
             \/ PropertiesOf(augmented.definitions[D])[N] # PropertiesOf(BaseDefinitions[D])[N])
              => Targeting(Declarations(document), D, N) # {}
       /\ RequiredOf(augmented.definitions[D]) # RequiredOf(BaseDefinitions[D])
            => \E N \in ExtensionNames : RequiredPairs(Declarations(document), D, N) # {}

ListsMissingDefinition(document) ==
  \E i \in 1..Len(Declarations(document)) :
    \E j \in 1..Len(Declarations(document)[i].restricted) :
      Declarations(document)[i].restricted[j] \notin DOMAIN BaseDefinitions

\* the error names a missing definition and the property name of its declaration
IdentifiesMissingDefinition(error, document) ==
  \E i \in 1..Len(Declarations(document)) :
    \E j \in 1..Len(Declarations(document)[i].restricted) :
      /\ Declarations(document)[i].restricted[j] \notin DOMAIN BaseDefinitions
      /\ error.class = "Error"
      /\ Contains(error.message, <<Declarations(document)[i].restricted[j]>>)
      /\ Contains(error.message, <<Declarations(document)[i].name>>)

\* C3: a call whose document lists, in some declaration's `restricted`, a name that is
\* no definition of the meta-schema is rejected with the configuration error that
\* names it; validateOpenRPCDocument raised (returned nothing), and neither the
\* engine nor the dereferencing capability was invoked.
C3_UnknownRestrictedFailsFast ==
  \A c \in Calls :
    (IsDocument(parsedSchema[c]) /\ ListsMissingDefinition(parsedSchema[c]))
      => /\ pc[c] = "rejected"
         /\ IdentifiesMissingDefinition(settled[c], parsedSchema[c])
         /\ isValid[c].kind = "undefined"
         /\ ajv[c] = <<>>
         /\ ~Invoked(c, "dereference")

\* the stage at which a rejected call failed
FailedStage(c) ==
  IF Failed(c, "fetchUrlSchemaFile") \/ Failed(c, "readSchemaFromFile") THEN "acquisition"
  ELSE IF Failed(c, "dereference") THEN "dereferencing"
  ELSE IF isValid[c].kind = "error" THEN "validation"
  ELSE "configuration"

\* the label that names the error kind of a stage
KindLabel(stage) ==
  IF stage = "validation" THEN "OpenRPCDocumentValidationError"
  ELSE "OpenRPCDocumentDereferencingError"

\* C5: the class and the `name` label of a failed call's error identify the stage that
\* failed: a validation failure is labelled as a validation error, a dereferencing
\* failure as a dereferencing error, and errors of different stages never share a label.
C5_ErrorKindsIdentifyStage ==
  /\ \A c \in Calls :
       (pc[c] = "rejected" /\ FailedStage(c) \in {"validation", "dereferencing"})
         => /\ settled[c].class = KindLabel(FailedStage(c))
            /\ settled[c].name = KindLabel(FailedStage(c))
  /\ \A c1, c2 \in Calls :
       (pc[c1] = "rejected" /\ pc[c2] = "rejected" /\ FailedStage(c1) # FailedStage(c2))
         => settled[c1].name # settled[c2].name

\* C6: a call is rejected with a Dereferencing Error exactly when the dereferencing
\* capability failed during it, and the error's message then contains the failure's
\* message; a failure of the URL or file collaborator rejects the call with the
\* collaborator's own error.
C6_DereferencingErrorIffDereferenceFailed ==
  \A c \in Calls :
    /\ (pc[c] = "rejected" /\ settled[c].class = "OpenRPCDocumentDereferencingError")
         <=> Failed(c, "dereference")
    /\ \A i \in 1..Len(io[c]) :
         io[c][i].outcome = "rejected"
           => /\ pc[c] = "rejected"
              /\ IF io[c][i].fn = "dereference"
                 THEN Contains(settled[c].message, io[c][i].error.message)
                 ELSE settled[c] = io[c][i].error

C6_Witness ==
  \E c1, c2 \in Calls :
    /\ Failed(c1, "dereference")
    /\ settled[c1].class = "OpenRPCDocumentDereferencingError"
    /\ Failed(c2, "readSchemaFromFile")
    /\ settled[c2] \in ReadFailures

RetrievalsOf(c) ==
  {i \in 1..Len(io[c]) : io[c][i].fn \in {"fetchUrlSchemaFile", "readSchemaFromFile"}}

\* C7: a call acquires its document by exactly one strategy, chosen in the order
\* non-string, JSON text, URL, file path; a call without argument reads the default
\* file name; no other retrieval collaborator is invoked.
C7_AcquisitionPrecedence ==
  \A c \in Calls :
    pc[c] # "idle"
      => /\ schema[c] = IF arguments[c] = <<>> THEN DefaultSchema ELSE arguments[c][1]
         /\ arguments[c] = <<>>
              => /\ io[c][1].fn = "pathExists"
                 /\ ~Invoked(c, "fetchUrlSchemaFile")
                 /\ \A i \in RetrievalsOf(c) : io[c][i].arg = "./openrpc.json"
         /\ IF schema[c].type # "string"
            THEN RetrievalsOf(c) = {} /\ parsedSchema[c] = schema[c].value
            ELSE IF schema[c].json.ok
            THEN RetrievalsOf(c) = {} /\ parsedSchema[c] = schema[c].json.value
            ELSE IF schema[c].url
            THEN /\ RetrievalsOf(c) = {1}
                 /\ io[c][1].fn = "fetchUrlSchemaFile"
                 /\ io[c][1].arg = schema[c].text
            ELSE /\ io[c][1].fn = "pathExists"
                 /\ pc[c] = "pathExists" => RetrievalsOf(c) = {}
                 /\ pc[c] # "pathExists"
                      => /\ RetrievalsOf(c) = {2}
                         /\ io[c][2].fn = "readSchemaFromFile"
                         /\ io[c][2].arg = schema[c].text

\* a string that parses as JSON and that is-url accepts was parsed, nothing fetched
C7_Witness ==
  \E c \in Calls :
    /\ pc[c] = "dereference"
    /\ schema[c].type = "string"
    /\ schema[c].json.ok
    /\ schema[c].url
    /\ parsedSchema[c] = PlainDocument

-----------------------------------------------------------------------------
(* Properties of the exported functions (specification SpecLib) *)

\* C4: after a successful applyExtensionsToMetaSchema, every (definition, name) pair
\* that some declaration targets holds the schema of the last such declaration, and
\* every other property and member of every definition is that of the base meta-schema.
C4_LastDeclarationWins ==
  ApplySucceeded
    => /\ DOMAIN call.ret.definitions = DOMAIN BaseDefinitions
       /\ \A D \in DOMAIN BaseDefinitions :
            LET augmented == call.ret.definitions[D]
                targeted == {N \in ExtensionNames : Targeting(Declarations(arg), D, N) # {}}
            IN /\ DOMAIN augmented \ {"required"} = DOMAIN BaseDefinitions[D] \ {"required"}
               /\ \A k \in DOMAIN augmented \ {"properties", "required"} :
                    augmented[k] = BaseDefinitions[D][k]
               /\ DOMAIN PropertiesOf(augmented)
                    = DOMAIN PropertiesOf(BaseDefinitions[D]) \cup targeted
               /\ \A N \in DOMAIN PropertiesOf(augmented) :
                    augmented.properties[N]
                      = IF N \in targeted
                        THEN Declarations(arg)[Max(Targeting(Declarations(arg), D, N))].schema
                        ELSE BaseDefinitions[D].properties[N]

\* two declarations with different schemas for the same pair; the second one is kept
C4_Witness ==
  /\ ApplySucceeded
  /\ Len(Declarations(arg)) = 2
  /\ Targeting(Declarations(arg), "methodObject", "name") = {1, 2}
  /\ Declarations(arg)[1].schema # Declarations(arg)[2].schema
  /\ call.ret.definitions["methodObject"].properties["name"] = Declarations(arg)[2].schema

\* C10: after a successful applyExtensionsToMetaSchema, the required list of every
\* definition is the base list followed by one entry per (declaration,
\* restricted-entry) pair with required = true that targets it, in x-extensions order
\* and with repetitions kept; so each name occurs as often as in the base plus the
\* number of such pairs.
C10_RequiredInjection ==
  ApplySucceeded
    => \A D \in DOMAIN BaseDefinitions :
         /\ RequiredOf(call.ret.definitions[D])
              = RequiredOf(BaseDefinitions[D]) \o AppendedTo(Declarations(arg), D)
         /\ Has(call.ret.definitions[D], "required") <=> Has(BaseDefinitions[D], "required")
         /\ \A N \in ExtensionNames \cup {"params"} :
              Count(RequiredOf(call.ret.definitions[D]), N)
                = Count(RequiredOf(BaseDefinitions[D]), N)
                  + Cardinality(RequiredPairs(Declarations(arg), D, N))

\* the same name pushed twice, and a name pushed that the base list already holds
C10_Witness ==
  /\ ApplySucceeded
  /\ \/ Count(call.ret.definitions["methodObject"].required, "x-foo") = 2
     \/ Count(call.ret.definitions["methodObject"].required, "name") = 3

\* R is S with $id and $schema absent from the root and from definitions.JSONSchema,
\* and nothing else changed
SanitizedOf(S, R) ==
  /\ DOMAIN R = DOMAIN S \ IdentityKeys
  /\ \A k \in DOMAIN R \ {"definitions"} : R[k] = S[k]
  /\ DOMAIN R.definitions = DOMAIN S.definitions
  /\ \A D \in DOMAIN S.definitions \ {"JSONSchema"} : R.definitions[D] = S.definitions[D]
  /\ DOMAIN R.definitions["JSONSchema"] = DOMAIN S.definitions["JSONSchema"] \ IdentityKeys
  /\ \A k \in DOMAIN R.definitions["JSONSchema"] :
       R.definitions["JSONSchema"][k] = S.definitions["JSONSchema"][k]

\* C8: cleanMetaSchemaForValidation changes its argument only by removing $id and
\* $schema from the root and from definitions.JSONSchema, and applied to its own
\* result it returns that result.
C8_SanitizeIdempotentMinimal ==
  (op = "cleanMetaSchemaForValidation" /\ call.n >= 1)
    => /\ SanitizedOf(arg, IF call.n = 1 THEN call.ret ELSE call.prev)
       /\ call.n = 2 => call.ret = call.prev

C8_Witness ==
  /\ op = "cleanMetaSchemaForValidation"
  /\ call.n = 2
  /\ IdentityKeys \subseteq DOMAIN arg
  /\ IdentityKeys \subseteq DOMAIN arg.definitions["JSONSchema"]
  /\ IdentityKeys \subseteq DOMAIN call.ret.definitions["contactObject"]

\* JSON.parse of the text JSON.stringify made of a list of violations
JSONparseErrors(tokens) ==
  [i \in 1..((Len(tokens) - 2) \div 5) |->
     [schemaPath |-> tokens[5 * (i - 1) + 3],
      dataPath |-> tokens[5 * (i - 1) + 4],
      message |-> tokens[5 * (i - 1) + 5]]]

\* C9: when validateOpenRPCDocument runs the engine, it runs it once, on the document
\* and on the sanitized result of applyExtensionsToMetaSchema; it returns true exactly
\* when the engine reported nothing, and otherwise returns (does not throw) a
\* validation error whose message holds every reported violation, in order.
C9_ValidateResult ==
  (op = "validateOpenRPCDocument" /\ call.n = 1 /\ call.ajv # <<>>)
    => /\ Len(call.ajv) = 1
       /\ call.ajv[1].data = arg
       /\ call.ajv[1].schema
            = cleanMetaSchemaForValidation(
                Let(applyExtensionsToMetaSchema([metaSchema |-> BaseMetaSchema], arg),
                    LAMBDA a : a.heap[a.ret]))
       /\ call.thrown.kind = "none"
       /\ call.ret.kind = "true" <=> call.ajv[1].errors.isNull
       /\ ~call.ajv[1].errors.isNull
            => /\ call.ret.kind = "error"
               /\ call.ret.class = "OpenRPCDocumentValidationError"
               /\ JSONparseErrors(SubSeq(call.ret.message, 5, Len(call.ret.message)))
                    = call.ajv[1].errors.list

\* two violations reported, on a schema that carries an injected property
C9_Witness ==
  /\ op = "validateOpenRPCDocument"
  /\ call.n = 1
  /\ call.ajv # <<>>
  /\ Len(call.ajv[1].errors.list) = 2
  /\ call.ajv[1].errors.list[1] # call.ajv[1].errors.list[2]
  /\ Has(call.ajv[1].schema.definitions["methodObject"].properties, "x-foo")
  /\ call.ret.kind = "error"

====
